---- MODULE Spec2Model ----
(***************************************************************************)
(* A model of vert (src/src/version.rs, src/src/package.rs,                *)
(* src/src/main.rs): the Version value with its parsing, ordering and      *)
(* rendering, the HTML directory-listing scraper, and the upstream         *)
(* discovery protocol Package::auto_check with its callers.                *)
(*                                                                         *)
(* A Rust string is modelled as a sequence of one-character strings, so    *)
(* that find, split, trim, pop, contains and replace are computed on       *)
(* characters as the code computes them.                                   *)
(***************************************************************************)
EXTENDS Integers, Sequences, FiniteSets

VARIABLES
    input,      \* version.rs: the string last handed to Version::from_str
    parsed,     \* version.rs: what Version::from_str returned for it
    va, vb, vc, \* version.rs: three Version values (their Vec<i32>)
    body,       \* version.rs: the tokens the tokenizer has fed to the sink
    sink,       \* version.rs: VersionSink.version, an Option<Version>
    sinkAt,     \* history: index of the token that supplied sink (0: none)
    db,         \* the package table's row (one tracked package)
    pkg,        \* the Package value the running command holds
    pc,         \* where the running command is
    ret,        \* what Package::auto_check returned
    resp,       \* history: the upstream response auto_check was given
    nreq,       \* history: requests the last auto_check issued
    now         \* the clock, in hours

versVars == <<input, parsed, va, vb, vc>>
htmlVars == <<body, sink, sinkAt>>
progVars == <<db, pkg, pc, ret, resp, nreq, now>>
vars == <<input, parsed, va, vb, vc, body, sink, sinkAt,
          db, pkg, pc, ret, resp, nreq, now>>

(***************************************************************************)
(* Characters and strings                                                  *)
(***************************************************************************)
Digits == <<"0", "1", "2", "3", "4", "5", "6", "7", "8", "9">>

\* char::is_ascii_digit
IsAsciiDigit(c) == \E i \in 1..10 : Digits[i] = c

\* the value of an ASCII digit (char::to_digit)
DigitVal(c) == (CHOOSE i \in 1..10 : Digits[i] = c) - 1

\* str::find(pred): the first index whose character satisfies pred, 0 for None
FindDigit(s) ==
    IF \E i \in 1..Len(s) : IsAsciiDigit(s[i])
    THEN CHOOSE i \in 1..Len(s) :
            IsAsciiDigit(s[i]) /\ \A j \in 1..(i - 1) : ~IsAsciiDigit(s[j])
    ELSE 0

\* &s[i..] with a 1-based i
From(s, i) == SubSeq(s, i, Len(s))

\* str::split(&[..]): the pieces between delimiters, empty pieces included
RECURSIVE Split(_, _)
Split(s, delims) ==
    IF \E i \in 1..Len(s) : s[i] \in delims
    THEN LET i == CHOOSE k \in 1..Len(s) :
                    s[k] \in delims /\ \A j \in 1..(k - 1) : s[j] \notin delims
         IN  <<SubSeq(s, 1, i - 1)>> \o Split(From(s, i + 1), delims)
    ELSE <<s>>

\* the range of i32
I32Max == 2147483647
I32Min == (-I32Max) - 1

\* the digit loop of i32::from_str: acc * 10 (+/-) digit, checked
RECURSIVE ParseDigits(_, _, _)
ParseDigits(ds, acc, positive) ==
    IF ds = <<>> THEN [ok |-> TRUE, val |-> acc]
    ELSE IF ~IsAsciiDigit(Head(ds)) THEN [ok |-> FALSE, val |-> 0]
    ELSE LET d == DigitVal(Head(ds))
         IN  IF positive
             THEN IF acc > (I32Max - d) \div 10
                  THEN [ok |-> FALSE, val |-> 0]
                  ELSE ParseDigits(Tail(ds), acc * 10 + d, positive)
             ELSE IF acc < -(IF d = 0 THEN I32Max \div 10
                                      ELSE (I32Max - d + 1) \div 10)
                  THEN [ok |-> FALSE, val |-> 0]
                  ELSE ParseDigits(Tail(ds), acc * 10 - d, positive)

\* i32::from_str: an optional sign, then at least one digit, within range
I32FromStr(d) ==
    IF d = <<>> THEN [ok |-> FALSE, val |-> 0]
    ELSE IF Len(d) = 1 /\ Head(d) \in {"+", "-"} THEN [ok |-> FALSE, val |-> 0]
    ELSE IF Head(d) = "+" THEN ParseDigits(Tail(d), 0, TRUE)
    ELSE IF Head(d) = "-" THEN ParseDigits(Tail(d), 0, FALSE)
    ELSE ParseDigits(d, 0, TRUE)

\* .map_while(|d| i32::from_str(d).ok()).collect()
RECURSIVE MapWhileI32(_)
MapWhileI32(tokens) ==
    IF tokens = <<>> THEN <<>>
    ELSE LET r == I32FromStr(Head(tokens))
         IN  IF r.ok THEN <<r.val>> \o MapWhileI32(Tail(tokens)) ELSE <<>>

\* the delimiters of Version::from_str
VersionDelims == {".", "-"}

\* the least number of components Version::from_str accepts is more than this
MinLenExclusive == 1

\* Result<Version, ()>
Err == [ok |-> FALSE, v |-> <<>>]
Ok(v) == [ok |-> TRUE, v |-> v]

\* mutant: accepts a single component
FromStrAcceptsOne(s) ==
    LET index == FindDigit(s)
    IN  IF index # 0
        THEN LET v == MapWhileI32(Split(From(s, index), VersionDelims))
             IN  IF Len(v) > 0 THEN Ok(v) ELSE Err
        ELSE Err

\* impl FromStr for Version
FromStr(s) ==
    LET index == FindDigit(s)
    IN  IF index # 0
        THEN LET v == MapWhileI32(Split(From(s, index), VersionDelims))
             IN  IF Len(v) > MinLenExclusive THEN Ok(v) ELSE Err
        ELSE Err

\* mutant: ordered by length first
VecCmpShortlex(a, b) ==
    IF Len(a) < Len(b) THEN "Less"
    ELSE IF Len(a) > Len(b) THEN "Greater"
    ELSE IF a = b THEN "Equal"
    ELSE LET i == CHOOSE k \in 1..Len(a) :
                    a[k] # b[k] /\ \A j \in 1..(k - 1) : a[j] = b[j]
         IN  IF a[i] < b[i] THEN "Less" ELSE "Greater"

\* Vec<i32>::partial_cmp: element by element over the common length, then
\* the lengths
RECURSIVE VecCmp(_, _)
VecCmp(a, b) ==
    IF a = <<>> \/ b = <<>>
    THEN IF Len(a) < Len(b) THEN "Less"
         ELSE IF Len(a) > Len(b) THEN "Greater" ELSE "Equal"
    ELSE IF Head(a) < Head(b) THEN "Less"
    ELSE IF Head(a) > Head(b) THEN "Greater"
    ELSE VecCmp(Tail(a), Tail(b))

\* impl PartialOrd for Version: a < b, and impl PartialEq: a == b
VersionLt(a, b) == VecCmp(a, b) = "Less"
VersionGt(a, b) == VecCmp(a, b) = "Greater"
VersionEq(a, b) == a = b

\* the decimal digits of a natural number
RECURSIVE NatToStr(_)
NatToStr(n) ==
    IF n < 10 THEN <<Digits[n + 1]>>
    ELSE NatToStr(n \div 10) \o <<Digits[(n % 10) + 1]>>

\* write!(f, "{digit}") of an i32
I32ToStr(n) ==
    IF n >= 0 THEN NatToStr(n)
    ELSE IF n = I32Min THEN <<"-">> \o NatToStr(I32Max \div 10) \o <<"8">>
    ELSE <<"-">> \o NatToStr(-n)

\* mutant: first is never cleared, so no "." is written
RECURSIVE VersionToStringNoDots(_)
VersionToStringNoDots(v) ==
    IF v = <<>> THEN <<>>
    ELSE I32ToStr(Head(v)) \o VersionToStringNoDots(Tail(v))

\* impl fmt::Display for Version: the components joined by "."
RECURSIVE VersionToString(_)
VersionToString(v) ==
    IF v = <<>> THEN <<>>
    ELSE IF Len(v) = 1 THEN I32ToStr(v[1])
    ELSE VersionToString(SubSeq(v, 1, Len(v) - 1)) \o <<".">> \o I32ToStr(v[Len(v)])

(***************************************************************************)
(* Values every specification starts the variables it does not use from    *)
(***************************************************************************)
None == [some |-> FALSE, v |-> <<>>]
Some(v) == [some |-> TRUE, v |-> v]

VersIdle == input = <<>> /\ parsed = Err /\ va = <<>> /\ vb = <<>> /\ vc = <<>>
HtmlIdle == body = <<>> /\ sink = None /\ sinkAt = 0

(***************************************************************************)
(* SpecParse: Version::from_str applied to inputs built from a prefix and  *)
(* tokens joined by the delimiters                                         *)
(***************************************************************************)
\* at most this many delimiter characters in an input
MaxDelims == 2

Prefixes == {<<>>, <<"a">>, <<"x", "3", "-">>}

Tokens ==
    { <<"1">>, <<"0", "2">>, <<>>, <<"+", "3">>, <<"1", "0", "p", "1">>,
      <<"2", "1", "4", "7", "4", "8", "3", "6", "4", "7">>,
      <<"2", "1", "4", "7", "4", "8", "3", "6", "4", "8">> }

NumDelims(s) == Cardinality({i \in 1..Len(s) : s[i] \in VersionDelims})

\* a caller hands s to Version::from_str
Parse(s) ==
    /\ input' = s
    /\ parsed' = FromStr(s)

ParseInit ==
    /\ \E p \in Prefixes, t \in Tokens : input = p \o t
    /\ parsed = FromStr(input)
    /\ va = <<>> /\ vb = <<>> /\ vc = <<>>

\* the next input: the last one with a delimiter and a token more
ParseLonger ==
    /\ NumDelims(input) < MaxDelims
    /\ \E d \in VersionDelims, t \in Tokens : Parse(input \o <<d>> \o t)
    /\ UNCHANGED <<va, vb, vc>>

(***************************************************************************)
(* SpecOrder: Version values built with Version::new and compared          *)
(***************************************************************************)
\* a Vec<i32> handed to Version::new has at most this many components
MaxVecLen == 2

Components == {-1, 0, 1}

RECURSIVE SeqsUpTo(_, _)
SeqsUpTo(S, n) ==
    IF n = 0 THEN {<<>>}
    ELSE LET shorter == SeqsUpTo(S, n - 1)
         IN  shorter \cup {Append(q, x) : q \in shorter, x \in S}

Vecs == SeqsUpTo(Components, MaxVecLen)

\* Version::new
New(v) == v

OrderInit ==
    /\ va \in Vecs /\ vb = <<>> /\ vc = <<>>
    /\ input = <<>> /\ parsed = Err

\* a new Version is constructed; the two before it are kept for comparison
NewVersion ==
    /\ \E v \in Vecs : va' = New(v)
    /\ vb' = va
    /\ vc' = vb
    /\ UNCHANGED <<input, parsed>>

(***************************************************************************)
(* The HTML scraper.  The tokenizer (html5ever) is outside the repository: *)
(* a page is modelled as the sequence of tokens it hands to the sink.      *)
(***************************************************************************)
\* Token::TagToken(Tag { kind, name, attrs, .. })
TagToken(kind, name, attrs) ==
    [type |-> "TagToken", kind |-> kind, name |-> name, attrs |-> attrs]

\* Token::CharacterTokens
CharacterTokens == [type |-> "CharacterTokens", kind |-> "", name |-> "", attrs |-> <<>>]

\* Attribute { name: QualName { local, .. }, value }
Attribute(local, value) == [local |-> local, value |-> value]

\* what the sink holds: Option<Version>, with the index of the token it is from
SinkNew == [some |-> FALSE, v |-> <<>>, at |-> 0]

\* mutant: a tie replaces the Version kept
KeepOrReplaceOnTie(s, version, at) ==
    IF ~s.some THEN [some |-> TRUE, v |-> version, at |-> at]
    ELSE IF ~VersionGt(s.v, version) THEN [some |-> TRUE, v |-> version, at |-> at]
    ELSE s

\* match &self.version { None => .., Some(v) => if v < &version {..} }
KeepOrReplace(s, version, at) ==
    IF ~s.some THEN [some |-> TRUE, v |-> version, at |-> at]
    ELSE IF VersionLt(s.v, version) THEN [some |-> TRUE, v |-> version, at |-> at]
    ELSE s

\* for attr in &attrs { if let Attribute { name: href, value } = attr {..} }
RECURSIVE ProcessAttrs(_, _, _)
ProcessAttrs(s, attrs, at) ==
    IF attrs = <<>> THEN s
    ELSE LET attr == Head(attrs)
             r == FromStr(attr.value)
             s1 == IF attr.local = "href" /\ r.ok
                   THEN KeepOrReplace(s, r.v, at)
                   ELSE s
         IN  ProcessAttrs(s1, Tail(attrs), at)

\* VersionSink::process_token; at is the token's index in the page
ProcessToken(s, token, at) ==
    IF token.type = "TagToken" /\ token.kind = "StartTag" /\ token.name = "a"
    THEN ProcessAttrs(s, token.attrs, at)
    ELSE s

\* tok.feed(&mut input); tok.end(): every token of the page, in order
RECURSIVE FeedFrom(_, _, _)
FeedFrom(s, tokens, at) ==
    IF tokens = <<>> THEN s
    ELSE FeedFrom(ProcessToken(s, Head(tokens), at), Tail(tokens), at + 1)

\* parse_html: tok.sink.version after the whole page
ParseHtml(tokens) ==
    LET s == FeedFrom(SinkNew, tokens, 1)
    IN  [some |-> s.some, v |-> s.v]

(***************************************************************************)
(* SpecHtml: the sink fed one token at a time                              *)
(***************************************************************************)
\* a page has at most this many tokens
MaxBodyTokens == 3

HrefParent == <<".", ".", "/">>
HrefSha == <<"S", "H", "A", "2", "5", "6">>
Href18tar == <<"s", "-", "1", ".", "8", ".", "t", "a", "r">>
Href110 == <<"s", "-", "1", ".", "1", "0">>
Href18v == <<"v", "1", "-", "8">>

Hrefs == {HrefParent, HrefSha, Href18tar, Href110, Href18v}

PageTokens ==
    {TagToken("StartTag", "a", <<Attribute("href", h)>>) : h \in Hrefs}
    \cup
    { TagToken("StartTag", "a", <<Attribute("title", Href110)>>),
      TagToken("StartTag", "a",
               <<Attribute("title", Href110), Attribute("href", Href18tar)>>),
      TagToken("EndTag", "a", <<Attribute("href", Href110)>>),
      TagToken("StartTag", "link", <<Attribute("href", Href110)>>),
      CharacterTokens }

HtmlInit ==
    /\ body = <<>>
    /\ sink = None
    /\ sinkAt = 0

\* the tokenizer hands the next token of the page to the sink
SinkProcessToken ==
    /\ Len(body) < MaxBodyTokens
    /\ \E token \in PageTokens :
        LET s == ProcessToken([some |-> sink.some, v |-> sink.v, at |-> sinkAt],
                              token, Len(body) + 1)
        IN  /\ body' = Append(body, token)
            /\ sink' = [some |-> s.some, v |-> s.v]
            /\ sinkAt' = s.at

(***************************************************************************)
(* String operations of package.rs                                         *)
(***************************************************************************)
Alphabet ==
    <<"a", "b", "c", "d", "e", "f", "g", "h", "i", "j", "k", "l", "m", "n",
      "o", "p", "q", "r", "s", "t", "u", "v", "w", "x", "y", "z">>
LegacyPattern ==
    <<"p", "y", "p", "i", ".", "p", "y", "t", "h", "o", "n", ".", "o", "r",
      "g", "/", "p", "y", "p", "i", "/">>
ModernPrefix ==
    <<"p", "y", "p", "i", ".", "o", "r", "g", "/", "p", "r", "o", "j", "e",
      "c", "t", "/">>
HostPypi == <<"p", "y", "p", "i", ".", "o", "r", "g">>
HostGithub == <<"g", "i", "t", "h", "u", "b", ".", "c", "o", "m">>
SchemeHttp == <<"h", "t", "t", "p">>
SchemeHttps == <<"h", "t", "t", "p", "s">>
SchemeFtp == <<"f", "t", "p">>

IsAsciiAlpha(c) == \E i \in 1..Len(Alphabet) : Alphabet[i] = c

\* str::ends_with(char)
EndsWith(s, c) == s # <<>> /\ s[Len(s)] = c

\* String::pop: the string without its last character
Pop(s) == SubSeq(s, 1, Len(s) - 1)

\* str::starts_with(pat)
StartsWith(s, pat) == Len(s) >= Len(pat) /\ SubSeq(s, 1, Len(pat)) = pat

\* str::contains(pat)
Contains(s, pat) == \E i \in 1..(Len(s) + 1) : StartsWith(From(s, i), pat)

\* str::replace(from, to): every non-overlapping match, left to right
RECURSIVE Replace(_, _, _)
Replace(s, from, to) ==
    IF s = <<>> THEN <<>>
    ELSE IF StartsWith(s, from)
    THEN to \o Replace(From(s, Len(from) + 1), from, to)
    ELSE <<Head(s)>> \o Replace(Tail(s), from, to)

\* str::trim_start_matches(|c| !char::is_ascii_digit(&c))
RECURSIVE TrimStartNonDigits(_)
TrimStartNonDigits(s) ==
    IF s = <<>> THEN <<>>
    ELSE IF ~IsAsciiDigit(Head(s)) THEN TrimStartNonDigits(Tail(s))
    ELSE s

\* Package::fix_pypi on self.master_site: the new master_site, and Ok(update)
FixPypi(master_site) ==
    LET update1 == EndsWith(master_site, "/")
        s1 == IF update1 THEN Pop(master_site) ELSE master_site
        update2 == Contains(s1, LegacyPattern)
        s2 == IF update2 THEN Replace(s1, LegacyPattern, ModernPrefix) ELSE s1
    IN  [master_site |-> s2, update |-> update1 \/ update2]

(***************************************************************************)
(* Url::parse, Url::domain, Url::path and Url::path_segments of the url    *)
(* crate, for URLs without userinfo, port, query escapes or upper case     *)
(***************************************************************************)
SpecialSchemes == {SchemeHttp, SchemeHttps, SchemeFtp}

IsSchemeChar(c) == IsAsciiAlpha(c) \/ IsAsciiDigit(c) \/ c \in {"+", "-", "."}

\* the index of the ':' that ends a scheme, 0 when the string starts with none
SchemeEnd(s) ==
    IF \E i \in 2..Len(s) :
            /\ s[i] = ":"
            /\ IsAsciiAlpha(s[1])
            /\ \A j \in 1..(i - 1) : IsSchemeChar(s[j])
    THEN CHOOSE i \in 2..Len(s) :
            s[i] = ":" /\ \A j \in 1..(i - 1) : s[j] # ":"
    ELSE 0

\* the first index of s holding a character of cs, Len(s) + 1 when none does
FirstOf(s, cs) ==
    IF \E i \in 1..Len(s) : s[i] \in cs
    THEN CHOOSE i \in 1..Len(s) : s[i] \in cs /\ \A j \in 1..(i - 1) : s[j] \notin cs
    ELSE Len(s) + 1

RECURSIVE TrimStartSlashes(_)
TrimStartSlashes(s) ==
    IF s # <<>> /\ Head(s) \in {"/", "\\"} THEN TrimStartSlashes(Tail(s)) ELSE s

IsNumber(part) == part # <<>> /\ \A i \in 1..Len(part) : IsAsciiDigit(part[i])

\* a host whose last label is a number is read as an IPv4 address
EndsInNumber(host) ==
    LET parts == Split(host, {"."})
    IN  IsNumber(parts[Len(parts)])

UrlErr == [ok |-> FALSE, host |-> "none", domain |-> <<>>, path |-> <<>>]

\* Url::parse
UrlParse(s) ==
    LET colon == SchemeEnd(s)
    IN  IF colon = 0 THEN UrlErr   \* ParseError::RelativeUrlWithoutBase
        ELSE
        LET scheme == SubSeq(s, 1, colon - 1)
            rest == From(s, colon + 1)
            special == scheme \in SpecialSchemes
            hasAuthority == special \/ StartsWith(rest, <<"/", "/">>)
            afterSlashes == IF special THEN TrimStartSlashes(rest)
                            ELSE IF hasAuthority THEN From(rest, 3) ELSE rest
            hostEnd == FirstOf(afterSlashes, {"/", "?", "#"})
            host == SubSeq(afterSlashes, 1, hostEnd - 1)
            tail == From(afterSlashes, hostEnd)
            rawPath == SubSeq(tail, 1, FirstOf(tail, {"?", "#"}) - 1)
            path == IF special /\ rawPath = <<>> THEN <<"/">> ELSE rawPath
        IN  IF ~hasAuthority
            THEN [ok |-> TRUE, host |-> "none", domain |-> <<>>, path |-> path]
            ELSE IF special /\ host = <<>> THEN UrlErr   \* ParseError::EmptyHost
            ELSE IF special /\ EndsInNumber(host)
            THEN IF /\ \A i \in 1..Len(Split(host, {"."})) : IsNumber(Split(host, {"."})[i])
                    /\ Len(Split(host, {"."})) <= 4
                 THEN [ok |-> TRUE, host |-> "ipv4", domain |-> <<>>, path |-> path]
                 ELSE UrlErr                             \* ParseError::InvalidIpv4Address
            ELSE IF host = <<>>
            THEN [ok |-> TRUE, host |-> "none", domain |-> <<>>, path |-> path]
            ELSE [ok |-> TRUE, host |-> "domain", domain |-> host, path |-> path]

\* Url::domain: Some only for a host that is a domain name
UrlDomain(url) == IF url.host = "domain" THEN Some(url.domain) ELSE None

\* Url::path
UrlPath(url) == url.path

\* url.path_segments().and_then(Iterator::last)
LastPathSegment(url) ==
    IF url.path # <<>> /\ Head(url.path) = "/"
    THEN LET segments == Split(Tail(url.path), {"/"})
         IN  Some(segments[Len(segments)])
    ELSE None

(***************************************************************************)
(* Upstream responses.  A body is what the decoders make of its bytes:     *)
(* the fields a JSON document holds, or the tokens of an HTML page.        *)
(***************************************************************************)
NoString == [some |-> FALSE, v |-> <<>>]

JsonBody(info_version, tag_name) ==
    [json |-> TRUE, info_version |-> info_version, tag_name |-> tag_name,
     tokens |-> <<>>]

HtmlBody(tokens) ==
    [json |-> FALSE, info_version |-> NoString, tag_name |-> NoString,
     tokens |-> tokens]

\* response.json::<PypiProject>(): { info: { version: String } }
DecodePypiProject(b) ==
    IF b.json /\ b.info_version.some THEN Ok(b.info_version.v) ELSE Err

\* response.json::<GitHubReleaseInfo>(): { tag_name: String }
DecodeGitHubReleaseInfo(b) ==
    IF b.json /\ b.tag_name.some THEN Ok(b.tag_name.v) ELSE Err

\* StatusCode::OK
StatusOK == 200

\* mutant: every 2xx status is taken as success
IsOkAnySuccess(status) == status \div 100 = 2

\* response.status() != StatusCode::OK, negated
IsOk(status) == status = StatusOK

\* the send() failed: no response
TransportError == [sent |-> FALSE, status |-> 0, body |-> HtmlBody(<<>>)]

HttpResponse(status, b) == [sent |-> TRUE, status |-> status, body |-> b]

(***************************************************************************)
(* Package                                                                 *)
(***************************************************************************)
\* struct Package, without id and distname (one tracked package)
Package(master_site, version, local_version, last_check) ==
    [master_site |-> master_site, version |-> version,
     local_version |-> local_version, last_check |-> last_check]

NoPackage == Package(<<>>, <<>>, NoString, 0)

\* what auto_check leaves: the package, and the value returned or a panic
Returned(p, value, requests) ==
    [pkg |-> p, panicked |-> FALSE, ret |-> value, nreq |-> requests]

Panicked(p, requests) ==
    [pkg |-> p, panicked |-> TRUE, ret |-> FALSE, nreq |-> requests]

\* Package::parse_pypi
ParsePypi(p, version) ==
    IF p.version = version
    THEN [pkg |-> p, ret |-> FALSE]
    ELSE [pkg |-> [p EXCEPT !.version = version], ret |-> TRUE]

\* mutant: the tag is compared as it is
ParseGithubNoTrim(p, tag_name) ==
    IF p.version # tag_name
    THEN [pkg |-> [p EXCEPT !.version = tag_name], ret |-> TRUE]
    ELSE [pkg |-> p, ret |-> FALSE]

\* Package::parse_github
ParseGithub(p, tag_name) ==
    LET version == TrimStartNonDigits(tag_name)
    IN  IF p.version # version
        THEN [pkg |-> [p EXCEPT !.version = version], ret |-> TRUE]
        ELSE [pkg |-> p, ret |-> FALSE]

\* auto_check, "pypi.org" arm
CheckPypi(p, url, r) ==
    IF ~LastPathSegment(url).some THEN Returned(p, FALSE, 0)
    ELSE IF ~r.sent THEN Panicked(p, 1)              \* .send().await.unwrap()
    ELSE IF ~IsOk(r.status) THEN Returned(p, FALSE, 1)
    ELSE LET pypi_project == DecodePypiProject(r.body)
         IN  IF pypi_project.ok
             THEN LET done == ParsePypi(p, pypi_project.v)
                  IN  Returned(done.pkg, done.ret, 1)
             ELSE Returned(p, FALSE, 1)

\* auto_check, "github.com" arm
CheckGithub(p, url, r) ==
    IF ~r.sent THEN Panicked(p, 1)                   \* .send().await.unwrap()
    ELSE IF ~IsOk(r.status) THEN Returned(p, FALSE, 1)
    ELSE LET github_info == DecodeGitHubReleaseInfo(r.body)
         IN  IF github_info.ok
             THEN LET done == ParseGithub(p, github_info.v)
                  IN  Returned(done.pkg, done.ret, 1)
             ELSE Returned(p, FALSE, 1)

\* mutant: the scraped Version replaces the current one whenever it differs
CheckGenericIfDifferent(p, r) ==
    IF ~r.sent THEN Returned(p, FALSE, 1)
    ELSE IF ~IsOk(r.status) THEN Returned(p, FALSE, 1)
    ELSE LET found == ParseHtml(r.body.tokens)
         IN  IF ~found.some THEN Returned(p, FALSE, 1)
             ELSE LET my_version == FromStr(p.version)
                  IN  IF ~my_version.ok
                      THEN Panicked(p, 1)
                      ELSE IF ~VersionEq(my_version.v, found.v)
                      THEN Returned([p EXCEPT !.version = VersionToString(found.v)],
                                    FALSE, 1)
                      ELSE Returned(p, FALSE, 1)

\* auto_check, the arm of every other host
CheckGeneric(p, r) ==
    IF ~r.sent THEN Returned(p, FALSE, 1)
    ELSE IF ~IsOk(r.status) THEN Returned(p, FALSE, 1)
    ELSE LET found == ParseHtml(r.body.tokens)
         IN  IF ~found.some THEN Returned(p, FALSE, 1)
             ELSE LET my_version == FromStr(p.version)
                  IN  IF ~my_version.ok
                      THEN Panicked(p, 1)  \* Version::from_str(..).unwrap()
                      ELSE IF VersionLt(my_version.v, found.v)
                      THEN Returned([p EXCEPT !.version = VersionToString(found.v)],
                                    FALSE, 1)
                      ELSE Returned(p, FALSE, 1)

\* Package::auto_check on package p when the upstream answers r
AutoCheck(p, r) ==
    LET url == UrlParse(p.master_site)
    IN  IF ~url.ok THEN Panicked(p, 0)    \* Url::parse(..).unwrap()
        ELSE LET hostname == UrlDomain(url)
             IN  IF ~hostname.some THEN Returned(p, FALSE, 0)
                 ELSE IF hostname.v = HostPypi THEN CheckPypi(p, url, r)
                 ELSE IF hostname.v = HostGithub THEN CheckGithub(p, url, r)
                 ELSE CheckGeneric(p, r)

(***************************************************************************)
(* Spec: the commands of main.rs on a database holding one package         *)
(***************************************************************************)
\* the clock stops here
MaxTime == 4

\* Duration::from_secs(7200), in hours
TwoHours == 2

SitePypi ==
    <<"h", "t", "t", "p", "s", ":", "/", "/", "p", "y", "p", "i", ".", "o",
      "r", "g", "/", "p", "r", "o", "j", "e", "c", "t", "/", "n">>
SiteLegacy ==
    <<"h", "t", "t", "p", "s", ":", "/", "/", "p", "y", "p", "i", ".", "p",
      "y", "t", "h", "o", "n", ".", "o", "r", "g", "/", "p", "y", "p", "i",
      "/", "n">>
SiteLegacySlash ==
    <<"h", "t", "t", "p", "s", ":", "/", "/", "p", "y", "p", "i", ".", "p",
      "y", "t", "h", "o", "n", ".", "o", "r", "g", "/", "p", "y", "p", "i",
      "/", "n", "/">>
SiteGithub ==
    <<"h", "t", "t", "p", "s", ":", "/", "/", "g", "i", "t", "h", "u", "b",
      ".", "c", "o", "m", "/", "o", "/", "r">>
SiteDistSlashes ==
    <<"h", "t", "t", "p", "s", ":", "/", "/", "e", ".", "i", "o", "/", "d",
      "/", "/">>
SiteIp ==
    <<"h", "t", "t", "p", ":", "/", "/", "1", "0", ".", "0", ".", "0", ".",
      "1", "/", "d">>
SiteNoScheme == <<"e", ".", "i", "o", "/", "d">>
V18 == <<"1", ".", "8">>
V110 == <<"1", ".", "1", "0">>
V7 == <<"7">>
V018 == <<"0", "1", ".", "8">>
TagV18 == <<"v", "1", ".", "8">>
TagV110 == <<"v", "1", ".", "1", "0">>
TagRel == <<"r", "e", "l">>

AddSites ==
    {SitePypi, SiteLegacy, SiteLegacySlash, SiteGithub, SiteDistSlashes,
     SiteIp, SiteNoScheme}

AddVersions == {V18, V110, V7}

PypiVersions == {V18, V110, V018}

Tags == {TagV18, TagV110, TagRel}

Pages ==
    { <<TagToken("StartTag", "a", <<Attribute("href", HrefParent)>>),
        TagToken("StartTag", "a", <<Attribute("href", Href18tar)>>),
        TagToken("StartTag", "a", <<Attribute("href", Href110)>>)>>,
      <<TagToken("StartTag", "a", <<Attribute("href", HrefSha)>>),
        CharacterTokens>>,
      <<TagToken("StartTag", "a", <<Attribute("href", Href18v)>>)>> }

Bodies ==
    {JsonBody(Some(v), NoString) : v \in PypiVersions}
    \cup {JsonBody(NoString, Some(tag)) : tag \in Tags}
    \cup {JsonBody(NoString, NoString)}
    \cup {HtmlBody(tokens) : tokens \in Pages}

Statuses == {200, 204, 404}

Responses ==
    {TransportError} \cup {HttpResponse(s, b) : s \in Statuses, b \in Bodies}

NoRow == [exists |-> FALSE, row |-> NoPackage]

ProgIdle ==
    /\ db = NoRow
    /\ pkg = NoPackage
    /\ pc = "idle"
    /\ ret = FALSE
    /\ resp = TransportError
    /\ nreq = 0
    /\ now = 0

\* time passes
Tick ==
    /\ now < MaxTime
    /\ now' = now + 1
    /\ UNCHANGED <<db, pkg, pc, ret, resp, nreq>>

\* main, "add": Package::add
Add ==
    /\ pc = "idle"
    /\ ~db.exists
    /\ \E url \in AddSites, release \in AddVersions :
        db' = [exists |-> TRUE,
               row |-> Package(url, release, Some(release), now)]
    /\ UNCHANGED <<pkg, pc, ret, resp, nreq, now>>

\* main, "update": Package::fetch_by_name, then Package::update
Update ==
    /\ pc = "idle"
    /\ db.exists
    /\ \E master_site \in {None} \cup {Some(u) : u \in AddSites},
          version \in {None} \cup {Some(v) : v \in AddVersions} :
        /\ master_site.some \/ version.some
        /\ db' = [db EXCEPT
                    !.row.master_site =
                        IF master_site.some THEN master_site.v ELSE @,
                    !.row.local_version =
                        IF version.some THEN Some(version.v) ELSE @]
    /\ UNCHANGED <<pkg, pc, ret, resp, nreq, now>>

\* main, "delete": Package::fetch_by_name, then Package::delete
Delete ==
    /\ pc = "idle"
    /\ db.exists
    /\ db' = NoRow
    /\ UNCHANGED <<pkg, pc, ret, resp, nreq, now>>

\* main, "check <pkg>": Package::fetch_by_name
CheckFetch ==
    /\ pc = "idle"
    /\ db.exists
    /\ pkg' = db.row
    /\ pc' = "fetched"
    /\ UNCHANGED <<db, ret, resp, nreq, now>>

\* main, "check": Package::check_all takes the package from timed_stream
CheckAllFetch ==
    /\ pc = "idle"
    /\ db.exists
    /\ db.row.last_check <= now - TwoHours
    /\ pkg' = db.row
    /\ pc' = "streamed"
    /\ UNCHANGED <<db, ret, resp, nreq, now>>

\* check_all: pkg.fix_pypi(pool)
CheckAllFixPypi ==
    /\ pc = "streamed"
    /\ LET fixed == FixPypi(pkg.master_site)
       IN  /\ pkg' = [pkg EXCEPT !.master_site = fixed.master_site]
           /\ db' = IF fixed.update
                    THEN [db EXCEPT !.row.master_site = fixed.master_site]
                    ELSE db
    /\ pc' = "fixed"
    /\ UNCHANGED <<ret, resp, nreq, now>>

\* pkg.auto_check(..) of either caller, the upstream answering r
CallAutoCheck ==
    /\ pc \in {"fetched", "fixed"}
    /\ \E r \in Responses :
        LET done == AutoCheck(pkg, r)
        IN  /\ pkg' = done.pkg
            /\ ret' = done.ret
            /\ nreq' = done.nreq
            /\ resp' = r
            /\ pc' = IF done.panicked THEN "panicked" ELSE "checked"
    /\ UNCHANGED <<db, now>>

\* Package::store_version
StoreVersion ==
    /\ pc = "checked"
    /\ ret
    /\ db' = [db EXCEPT !.row.version = pkg.version, !.row.last_check = now]
    /\ pkg' = NoPackage
    /\ pc' = "idle"
    /\ ret' = FALSE /\ resp' = TransportError /\ nreq' = 0
    /\ UNCHANGED now

\* Package::update_last_check
UpdateLastCheck ==
    /\ pc = "checked"
    /\ ~ret
    /\ db' = [db EXCEPT !.row.last_check = now]
    /\ pkg' = NoPackage
    /\ pc' = "idle"
    /\ ret' = FALSE /\ resp' = TransportError /\ nreq' = 0
    /\ UNCHANGED now

\* the process a panic ended is gone; the database is as it was
Abort ==
    /\ pc = "panicked"
    /\ pkg' = NoPackage
    /\ pc' = "idle"
    /\ ret' = FALSE /\ resp' = TransportError /\ nreq' = 0
    /\ UNCHANGED <<db, now>>

Init == ProgIdle /\ VersIdle /\ HtmlIdle

Next ==
    \/ (Tick /\ UNCHANGED versVars /\ UNCHANGED htmlVars)
    \/ (Add /\ UNCHANGED versVars /\ UNCHANGED htmlVars)
    \/ (Update /\ UNCHANGED versVars /\ UNCHANGED htmlVars)
    \/ (Delete /\ UNCHANGED versVars /\ UNCHANGED htmlVars)
    \/ (CheckFetch /\ UNCHANGED versVars /\ UNCHANGED htmlVars)
    \/ (CheckAllFetch /\ UNCHANGED versVars /\ UNCHANGED htmlVars)
    \/ (CheckAllFixPypi /\ UNCHANGED versVars /\ UNCHANGED htmlVars)
    \/ (CallAutoCheck /\ UNCHANGED versVars /\ UNCHANGED htmlVars)
    \/ (StoreVersion /\ UNCHANGED versVars /\ UNCHANGED htmlVars)
    \/ (UpdateLastCheck /\ UNCHANGED versVars /\ UNCHANGED htmlVars)
    \/ (Abort /\ UNCHANGED versVars /\ UNCHANGED htmlVars)

Spec == Init /\ [][Next]_vars

(***************************************************************************)
(* The specifications of the pure parts                                    *)
(***************************************************************************)
InitParse == ParseInit /\ HtmlIdle /\ ProgIdle
NextParse == ParseLonger /\ UNCHANGED htmlVars /\ UNCHANGED progVars
SpecParse == InitParse /\ [][NextParse]_vars

InitOrder == OrderInit /\ HtmlIdle /\ ProgIdle
NextOrder == NewVersion /\ UNCHANGED htmlVars /\ UNCHANGED progVars
SpecOrder == InitOrder /\ [][NextOrder]_vars

InitHtml == HtmlInit /\ VersIdle /\ ProgIdle
NextHtml == SinkProcessToken /\ UNCHANGED versVars /\ UNCHANGED progVars
SpecHtml == InitHtml /\ [][NextHtml]_vars

(***************************************************************************)
(* What the properties below speak of                                      *)
(***************************************************************************)
\* auto_check has been called by the running command and has ended
Called == pc \in {"checked", "panicked"}

\* the current version the package had when auto_check was called: the
\* stored one, which no step between the fetch and the call writes
VersionBefore == db.row.version

\* the retrieval strategy auto_check chooses for a master_site
Strategy(master_site) ==
    LET url == UrlParse(master_site)
    IN  IF ~url.ok THEN "unparsable"
        ELSE IF url.host # "domain" THEN "no-domain"
        ELSE IF url.domain = HostPypi THEN "package-index"
        ELSE IF url.domain = HostGithub THEN "release-hosting"
        ELSE "generic"

\* C1: auto_check returns true exactly when it replaced the package's current
\* version, and false exactly when the current version is as it was.
C1_TrueIffVersionReplaced ==
    pc = "checked" => (ret <=> pkg.version # VersionBefore)

\* a token that is a base-10 non-negative integer: digits, and at least one
IsNaturalToken(token) ==
    token # <<>> /\ \A i \in 1..Len(token) : IsAsciiDigit(token[i])

\* how many tokens come before the first that is no such integer
RECURSIVE NumLeadingNaturals(_)
NumLeadingNaturals(tokens) ==
    IF tokens = <<>> \/ ~IsNaturalToken(Head(tokens)) THEN 0
    ELSE 1 + NumLeadingNaturals(Tail(tokens))

\* the digits of a token without its leading zeros
RECURSIVE WithoutLeadingZeros(_)
WithoutLeadingZeros(token) ==
    IF Len(token) > 1 /\ Head(token) = "0" THEN WithoutLeadingZeros(Tail(token))
    ELSE token

\* C2: Version::from_str(s) fails when s has no ASCII digit or the prefix
\* decode yields fewer than two integers; otherwise it returns the tokens of
\* the substring from the first digit, split on '.' and '-', read as base-10
\* non-negative integers up to the first token that is not one.
C2_FromStrIsPrefixDecode ==
    LET index == FindDigit(input)
        tokens == Split(From(input, index), VersionDelims)
        n == NumLeadingNaturals(tokens)
    IN  IF index = 0 \/ n < 2 THEN ~parsed.ok
        ELSE /\ parsed.ok
             /\ Len(parsed.v) = n
             /\ \A k \in 1..n : I32ToStr(parsed.v[k]) = WithoutLeadingZeros(tokens[k])

\* a is before b lexicographically: a strict prefix of b, or smaller at the
\* first place they differ
LexLess(a, b) ==
    \/ Len(a) < Len(b) /\ \A i \in 1..Len(a) : a[i] = b[i]
    \/ \E i \in 1..Len(a) :
        /\ i <= Len(b)
        /\ a[i] < b[i]
        /\ \A j \in 1..(i - 1) : a[j] = b[j]

\* C3: the comparison of Versions is the lexicographic comparison of their
\* component sequences, exactly one of a<b, a=b, a>b holds, and a<b with b<c
\* gives a<c.
C3_LexicographicTotalOrder ==
    /\ VersionLt(va, vb) <=> LexLess(va, vb)
    /\ VersionGt(va, vb) <=> LexLess(vb, va)
    /\ VersionEq(va, vb) <=>
        (Len(va) = Len(vb) /\ \A i \in 1..Len(va) : va[i] = vb[i])
    /\ Cardinality({r \in {"lt", "eq", "gt"} :
            \/ r = "lt" /\ VersionLt(va, vb)
            \/ r = "eq" /\ VersionEq(va, vb)
            \/ r = "gt" /\ VersionGt(va, vb)}) = 1
    /\ (VersionLt(va, vb) /\ VersionLt(vb, vc)) => VersionLt(va, vc)

\* three Versions in a chain: a strict prefix, then a differing component
C3_Witness ==
    /\ vc = <<1>> /\ vb = <<1, 0>> /\ va = <<1, 1>>
    /\ VersionLt(vc, vb) /\ VersionLt(vb, va) /\ VersionLt(vc, va)

\* the Versions the hrefs of a page's anchor start tags parse to, each with
\* the index of its tag
AnchorVersions(tokens) ==
    { [at |-> i, v |-> FromStr(tokens[i].attrs[k].value).v] :
        <<i, k>> \in
            { ik \in (1..Len(tokens)) \X (1..2) :
                /\ tokens[ik[1]].type = "TagToken"
                /\ tokens[ik[1]].kind = "StartTag"
                /\ tokens[ik[1]].name = "a"
                /\ ik[2] <= Len(tokens[ik[1]].attrs)
                /\ tokens[ik[1]].attrs[ik[2]].local = "href"
                /\ FromStr(tokens[ik[1]].attrs[ik[2]].value).ok } }

\* C4: parse_html returns the maximum of the Versions that parse from the
\* hrefs of anchor start tags, the earliest tag's on a tie, and None exactly
\* when no anchor href parses.
C4_ParseHtmlIsMaximum ==
    LET found == AnchorVersions(body)
        whole == FeedFrom(SinkNew, body, 1)
    IN  /\ ParseHtml(body) = sink
        /\ whole.at = sinkAt
        /\ sink.some <=> found # {}
        /\ sink.some =>
            \E c \in found :
                /\ c.v = sink.v
                /\ c.at = sinkAt
                /\ \A d \in found :
                    /\ ~VersionLt(c.v, d.v)
                    /\ d.v = c.v => d.at >= c.at

\* a page with a Version, an href that does not parse, and the same Version
\* again: the first is kept
C4_Witness ==
    /\ Len(body) = 3
    /\ body[1] = TagToken("StartTag", "a", <<Attribute("href", Href18tar)>>)
    /\ body[2] = TagToken("StartTag", "a", <<Attribute("href", HrefSha)>>)
    /\ body[3] = TagToken("StartTag", "a", <<Attribute("href", Href18v)>>)
    /\ sink = Some(<<1, 8>>)
    /\ sinkAt = 1

\* the string a tag_name is compared as: from its first ASCII digit on
Stripped(tag_name) ==
    IF FindDigit(tag_name) = 0 THEN <<>> ELSE From(tag_name, FindDigit(tag_name))

\* the upstream answered 200 with a body of the shape the host's strategy
\* decodes
DecodedFor(master_site, r) ==
    /\ r.sent /\ r.status = 200 /\ r.body.json
    /\ \/ Strategy(master_site) = "package-index" /\ r.body.info_version.some
       \/ Strategy(master_site) = "release-hosting" /\ r.body.tag_name.some

\* the remote version string of such a response
RemoteVersion(master_site, r) ==
    IF Strategy(master_site) = "package-index" THEN r.body.info_version.v
    ELSE Stripped(r.body.tag_name.v)

\* C5: on a package-index or release-hosting host with a 200 response that
\* decodes, auto_check reports changed exactly when the remote version string
\* (the tag_name stripped of leading non-digits) differs as a string from the
\* current one, and the current version is then the remote string.
C5_StructuredHostsCompareStrings ==
    (Called /\ DecodedFor(pkg.master_site, resp)) =>
        LET remote == RemoteVersion(pkg.master_site, resp)
        IN  /\ pc = "checked"
            /\ ret <=> remote # VersionBefore
            /\ pkg.version = remote

\* the release-hosting host answers a tag that is numerically lower than the
\* current version: it replaces it
C5_Witness ==
    /\ pc = "checked"
    /\ pkg.master_site = SiteGithub
    /\ DecodedFor(pkg.master_site, resp)
    /\ resp.body.tag_name = Some(TagV18)
    /\ VersionBefore = V110
    /\ ret
    /\ pkg.version = V18

\* C6: auto_check never raises a fatal error: for every strategy and every
\* failure it ends normally, and returns false.
C6_AutoCheckNeverFatal ==
    Called =>
        /\ pc # "panicked"
        /\ (~resp.sent \/ resp.status # 200 \/ Strategy(pkg.master_site) = "unparsable")
            => ~ret

\* the upstream answered, and not with a 200 whose body the strategy reads
FailedResponse(master_site, r) ==
    /\ r.sent
    /\ \/ r.status # 200
       \/ Strategy(master_site) = "package-index" /\ ~DecodePypiProject(r.body).ok
       \/ Strategy(master_site) = "release-hosting"
            /\ ~DecodeGitHubReleaseInfo(r.body).ok

\* C7: when the response has a status other than 200, or (package-index and
\* release-hosting) status 200 and a body that does not decode, auto_check
\* returns false and the package's current version, master_site and
\* local_version are unchanged.
C7_FailedResponseIsNoUpdate ==
    (Called /\ nreq = 1 /\ FailedResponse(pkg.master_site, resp)) =>
        /\ pc = "checked"
        /\ ~ret
        /\ pkg.version = VersionBefore
        /\ pkg.master_site = db.row.master_site
        /\ pkg.local_version = db.row.local_version

\* the release-hosting host answers 200 with a document without tag_name
C7_Witness ==
    /\ pc = "checked"
    /\ nreq = 1
    /\ pkg.master_site = SiteGithub
    /\ resp.sent /\ resp.status = 200 /\ resp.body.info_version.some
    /\ FailedResponse(pkg.master_site, resp)
    /\ ~ret
    /\ pkg = db.row

\* C8: normalization is idempotent: applied to a master_site it has been
\* applied to, fix_pypi leaves it the same and reports no update.
C8_FixPypiIdempotent ==
    pc = "fixed" =>
        FixPypi(pkg.master_site) = [master_site |-> pkg.master_site, update |-> FALSE]

\* C9: a legacy master_site, with or without a trailing '/', is normalized to
\* the modern form with the same name, and no normalized master_site ends
\* with '/'.
C9_FixPypiModernNoSlash ==
    /\ (pc = "streamed" /\ pkg.master_site \in {SiteLegacy, SiteLegacySlash})
        => FixPypi(pkg.master_site).master_site = SitePypi
    /\ pc = "fixed" => ~EndsWith(pkg.master_site, "/")

\* C10: when the master_site has no domain component, auto_check returns
\* false, issues no request and leaves the current version unchanged.
C10_NoDomainIsNoUpdate ==
    (Called /\ Strategy(pkg.master_site) \in {"unparsable", "no-domain"}) =>
        /\ pc = "checked"
        /\ ~ret
        /\ nreq = 0
        /\ pkg.version = VersionBefore

(***************************************************************************)
(* SpecRound: a Version built with Version::new, rendered with to_string,  *)
(* and the rendering handed to Version::from_str                           *)
(***************************************************************************)
\* a rendered Version has at most this many components
MaxRoundLen == 3

RoundComponents == {-1, 0, 7, 10, I32Max}

RoundInit ==
    /\ va = New(<<>>)
    /\ input = VersionToString(va)
    /\ parsed = FromStr(input)
    /\ vb = <<>> /\ vc = <<>>

\* Version::new of a vector one component longer, version.to_string(), and
\* Version::from_str of the string
RenderAndParse ==
    /\ Len(va) < MaxRoundLen
    /\ \E x \in RoundComponents : va' = New(Append(va, x))
    /\ input' = VersionToString(va')
    /\ parsed' = FromStr(input')
    /\ UNCHANGED <<vb, vc>>

InitRound == RoundInit /\ HtmlIdle /\ ProgIdle
NextRound == RenderAndParse /\ UNCHANGED htmlVars /\ UNCHANGED progVars
SpecRound == InitRound /\ [][NextRound]_vars

\* a piece is the decimal writing of n: digits, no leading zero, value n
IsDecimalOf(piece, n) ==
    /\ IsNaturalToken(piece)
    /\ Len(piece) > 1 => Head(piece) # "0"
    /\ I32FromStr(piece) = [ok |-> TRUE, val |-> n]

\* C11: for every Version v with at least two components, none negative, the
\* rendering of v is its components joined by '.', and Version::from_str of
\* the rendering succeeds with a Version equal to v.
C11_RenderingRoundTrips ==
    (Len(va) >= 2 /\ \A i \in 1..Len(va) : va[i] >= 0) =>
        LET pieces == Split(input, {"."})
        IN  /\ Len(pieces) = Len(va)
            /\ \A i \in 1..Len(va) : IsDecimalOf(pieces[i], va[i])
            /\ parsed.ok
            /\ VersionEq(parsed.v, va)

\* a Version with 10, 0 and the greatest i32 has gone round
C11_Witness ==
    /\ va = <<10, 0, I32Max>>
    /\ Len(input) = 15
    /\ parsed = Ok(va)

\* this step is a call of auto_check on a generic host
GenericCall ==
    /\ pc \in {"fetched", "fixed"}
    /\ pc' \in {"checked", "panicked"}
    /\ Strategy(pkg.master_site) = "generic"

\* this step ends a check on a generic host: the caller persists
GenericPersist ==
    /\ pc = "checked"
    /\ pc' = "idle"
    /\ Strategy(pkg.master_site) = "generic"

\* version string new is old, or parses to a strictly greater Version
NotLower(old, new) ==
    \/ new = old
    \/ /\ FromStr(old).ok
       /\ FromStr(new).ok
       /\ VersionLt(FromStr(old).v, FromStr(new).v)

\* C12: under the generic HTML strategy the current version is replaced only
\* by a scraped Version that is strictly greater in the Version ordering, so
\* over generic-host checks it never decreases, and it is unchanged when the
\* scraper finds no version or one less than or equal to the current one.
C12_GenericOnlyAdvances ==
    [][ /\ GenericCall =>
            LET scraped == IF resp'.sent /\ resp'.status = 200
                           THEN ParseHtml(resp'.body.tokens)
                           ELSE None
                mine == FromStr(pkg.version)
            IN  /\ pkg'.version # pkg.version =>
                    /\ scraped.some
                    /\ mine.ok
                    /\ VersionLt(mine.v, scraped.v)
                    /\ FromStr(pkg'.version) = Ok(scraped.v)
                /\ (~scraped.some \/ (mine.ok /\ ~VersionLt(mine.v, scraped.v)))
                    => pkg'.version = pkg.version
                /\ NotLower(pkg.version, pkg'.version)
        /\ GenericPersist => NotLower(db.row.version, db'.row.version)
      ]_vars

\* a generic host whose page holds 1.10 was checked with 1.8 current
C12_Witness ==
    /\ pc = "checked"
    /\ Strategy(pkg.master_site) = "generic"
    /\ resp.sent /\ resp.status = 200
    /\ ParseHtml(resp.body.tokens) = Some(<<1, 10>>)
    /\ VersionBefore = V18
    /\ pkg.version = V110

\* C13: in every discovery check, of one named package or of all due ones,
\* the master_site is normalized before the host is classified, so a legacy
\* pypi.python.org/pypi/<name> URL is always handled by the package-index
\* strategy.
C13_NormalizedBeforeClassified ==
    Called =>
        /\ ~Contains(pkg.master_site, LegacyPattern)
        /\ pkg.master_site \in {SitePypi, SiteLegacy, SiteLegacySlash}
            => Strategy(pkg.master_site) = "package-index"

\* C14: every Version value that can exist, from Version::from_str or from
\* Version::new, has at least two components, none of them negative.
C14_VersionsWellFormed ==
    /\ Len(va) >= 2
    /\ \A i \in 1..Len(va) : va[i] >= 0
    /\ parsed.ok =>
        /\ Len(parsed.v) >= 2
        /\ \A i \in 1..Len(parsed.v) : parsed.v[i] >= 0

\* C15: when a check completes, the version stored for the package is the
\* in-memory current version auto_check left: a replaced version is
\* persisted with store_version, and otherwise only last_check is written.
C15_StoredVersionIsCurrent ==
    [][ (pc = "checked" /\ pc' = "idle") =>
            /\ db'.row.version = pkg.version
            /\ pkg.version = VersionBefore =>
                db' = [db EXCEPT !.row.last_check = now]
      ]_vars

====
